---- MODULE Spec2Model ----
(***************************************************************************)
(* Model of the farm-market platform's scheduled data collection:          *)
(*   - DataScheduler (src/data_scheduler.py): job registry, background     *)
(*     loop threads, start/stop lifecycle, manual run_once_now;            *)
(*   - the price store written by _save_prices_to_database_safe and by     *)
(*     the /api/data/collect route (src/app.py).                           *)
(*   - cleanup_old_data, ZambianDataFetcher.fetch_all_sources              *)
(*     (src/zambian_data.py) and the forecasts of src/forecast.py.         *)
(* Spec          : scheduler lifecycle and threads.                        *)
(* SpecApp       : the same inside the application, which registers jobs   *)
(*                 of its own in the shared registry.                      *)
(* SpecDb        : writers of market_prices, one SQL statement a step.     *)
(* SpecSweep     : the retention sweep over stored timestamps.             *)
(* SpecFetch     : one call of fetch_all_sources, one adapter a step.      *)
(* SpecForecast  : one forecast call, one point a step.                    *)
(* SpecRecommend : one call of get_forecast_recommendations.               *)
(* SpecEnsemble  : one call of ensemble_forecast, one day a step.          *)
(***************************************************************************)
EXTENDS Integers, Sequences, FiniteSets, TLC

\* ------------------------------------------------------------------ bounds
MaxStarts == 2      \* start_scheduler calls that start a loop thread
MaxStops  == 1      \* stop_scheduler calls
MaxManual == 1      \* run_once_now calls
MaxTicks  == 2      \* observations of the wall clock after the first
MaxBatches == 2     \* collections performed, all threads together
MaxNow    == 2      \* last instant of the price store's clock
TicksPerDay == 2    \* instants of the price store's clock in a calendar day
MaxPrice  == 2      \* prices an adapter reports are 1..MaxPrice
MaxSweepDay == 1    \* days observed after each of day 0, day 90 and day 180
MaxTimeField == 1   \* seconds of the day, and microseconds, are 0..MaxTimeField
MaxSweepRows == 2   \* collections seen by the retention sweep
MaxSweeps == 1      \* cleanup_old_data calls
MaxDays == 2        \* forecast horizons are 0..MaxDays
MaxAnchor == 1      \* last prices of a history are 0..MaxAnchor price units
MaxDate == 1        \* calendar days that pass while forecasts are computed
MaxOffset == 1      \* change_percent is 0..MaxOffset hundredths off a threshold
MaxCandidate == 2   \* candidate prices of the ensemble are 1..MaxCandidate

\* --------------------------------------------------------- program constants
MinutesPerDay == 1440
MarketOpenHour == 8
MarketCloseHour == 18
Sunday == 0
Monday == 1
EveryDay == 7       \* "every().day": no weekday restriction
PriceRetentionDays == 180
LogRetentionDays == 90
CharSpace == 32     \* ' '
CharDot == 46       \* '.'
CharT == 84         \* 'T'
PriceScale == 10000       \* price units in one ZMW
SparseHistory == 2        \* "len(df) < 2"
LinearHistory == 5        \* "len(df) >= 5"
EnsembleHistory == 10     \* "len(df) >= 10"
MediumHistory == 20       \* "len(df) >= 20"
DefaultCurrentPrice == 100    \* "current_price = 100.00", in ZMW
RecommendationDays == 7   \* "get_market_forecast(commodity, market, 7)"
StrongChange == 8         \* "avg_change > 8", "avg_change < -8"
ModerateChange == 3       \* "avg_change > 3", "avg_change < -3"
PercentScale == 100       \* change_percent units in one percent

VARIABLES
    running,          \* DataScheduler.running
    registry,         \* schedule.jobs: the process-wide job list
    starts,           \* number of loop threads start_scheduler has created
    stops,            \* number of stop_scheduler calls
    now,              \* wall clock, minutes since Sunday 00:00
    ticks,            \* number of clock advances so far
    thr,              \* the loop threads start_scheduler has created
    man,              \* the thread calling run_once_now
    manuals,          \* number of run_once_now calls
    lastManual,       \* outcome of the last completed run_once_now
    collection_logs,  \* table collection_logs
    activity_logs,    \* table activity_logs
    appTasks,         \* app.schedule_tasks has been called
    rows,             \* table market_prices, committed state
    nextId,           \* market_prices AUTOINCREMENT counter, committed
    wlock,            \* writer holding SQLite's write lock, 0 when free
    work,             \* the lock holder's open transaction: its table
    dbNow,            \* clock read by the adapters and by the writers
    w,                \* the threads that collect prices
    batches,          \* number of collections started
    writes,           \* observations whose write was counted as saved
    sweepNow,         \* datetime.now() as cleanup_old_data reads it
    price_rows,       \* table market_prices: recorded_at as stored TEXT
    log_rows,         \* table collection_logs: collected_at as stored TEXT
    collections,      \* number of collections that wrote those tables
    sweeps,           \* number of cleanup_old_data calls
    swept,            \* outcome of the last cleanup_old_data call
    fetch,            \* the running call of fetch_all_sources
    fcDate,           \* the calendar day datetime.now() falls on
    fc,               \* the running forecast call
    rec,              \* the running call of get_forecast_recommendations
    ens               \* the running call of ensemble_forecast

svars == <<running, registry, starts, stops, now, ticks, thr, man, manuals,
           lastManual, collection_logs, activity_logs, appTasks>>

dvars == <<rows, nextId, wlock, work, dbNow, w, batches, writes>>

wvars == <<sweepNow, price_rows, log_rows, collections, sweeps, swept>>

fvars == <<fetch>>

pvars == <<fcDate, fc>>

rvars == <<rec>>

evars == <<ens>>

vars == <<svars, dvars, wvars, fvars, pvars, rvars, evars>>

\* ------------------------------------------------------------------- time
At(h, m) == h * 60 + m

Hour(t) == (t % MinutesPerDay) \div 60

ClockStep == At(0, 30)  \* the wall clock is observed every half hour

\* The instants at which the process may be started: before the market
\* opens, an hour before it closes and after it has closed.
StartInstants == { At(7, 30), At(17, 0), At(18, 30) }

\* schedule.Job._schedule_next_run: the first instant after t that falls
\* on time-of-day at and, for a weekly job, on weekday wd.
NextRun(t, wd, at) ==
    LET cand  == (t \div MinutesPerDay) * MinutesPerDay + at
        first == IF cand > t THEN cand ELSE cand + MinutesPerDay
        k     == IF wd = EveryDay THEN 0
                 ELSE (wd + 7 - ((first \div MinutesPerDay) % 7)) % 7
    IN  first + k * MinutesPerDay

\* ------------------------------------------------------------ job registry
HourlyHours == MarketOpenHour .. (MarketCloseHour - 1)

DsJobSpecs ==
    << [func |-> "update_market_status",    at |-> At(7, 0),  wd |-> EveryDay],
       [func |-> "send_daily_summaries",    at |-> At(7, 5),  wd |-> EveryDay],
       [func |-> "collect_daily_data",      at |-> At(8, 0),  wd |-> EveryDay],
       [func |-> "create_daily_backup",     at |-> At(2, 0),  wd |-> EveryDay],
       [func |-> "generate_daily_report",   at |-> At(23, 0), wd |-> EveryDay] >>
    \o [i \in 1..Cardinality(HourlyHours) |->
          [func |-> "collect_hourly_updates",
           at |-> At(MarketOpenHour + i - 1, 30), wd |-> EveryDay]]
    \o << [func |-> "cleanup_old_data",        at |-> At(1, 0), wd |-> Sunday],
          [func |-> "generate_monthly_report", at |-> At(3, 0), wd |-> Monday] >>

\* The jobs app.schedule_tasks registers in the same registry.
AppJobSpecs ==
    << [func |-> "daily_data_collection",    at |-> At(8, 0), wd |-> EveryDay],
       [func |-> "daily_backup",             at |-> At(2, 0), wd |-> EveryDay],
       [func |-> "send_daily_sms_summaries", at |-> At(7, 0), wd |-> EveryDay] >>
    \o [i \in 1..Cardinality(HourlyHours) |->
          [func |-> "hourly_price_check",
           at |-> At(MarketOpenHour + i - 1, 30), wd |-> EveryDay]]

\* schedule.every()...do(f): a new job object, next_run computed from now.
\* gen tells the job objects of different registrations apart.
MakeJobs(specs, owner, gen, t) ==
    [i \in 1..Len(specs) |->
        [gen |-> gen, owner |-> owner, func |-> specs[i].func,
         at |-> specs[i].at, wd |-> specs[i].wd,
         next_run |-> NextRun(t, specs[i].wd, specs[i].at)]]

SameJob(a, b) ==
    /\ a.gen = b.gen /\ a.owner = b.owner
    /\ a.func = b.func /\ a.at = b.at /\ a.wd = b.wd

RECURSIVE InsertByNextRun(_, _)
InsertByNextRun(s, j) ==
    IF s = <<>> THEN <<j>>
    ELSE IF j.next_run < Head(s).next_run THEN <<j>> \o s
    ELSE <<Head(s)>> \o InsertByNextRun(Tail(s), j)

RECURSIVE SortJobs(_)
SortJobs(s) ==
    IF s = <<>> THEN <<>>
    ELSE InsertByNextRun(SortJobs(SubSeq(s, 1, Len(s) - 1)), s[Len(s)])

\* schedule.run_pending: the jobs whose next_run has passed, by next_run.
DueJobs(reg, t) ==
    LET Due(j) == t >= j.next_run
    IN  SortJobs(SelectSeq(reg, Due))

\* schedule.Job.run, after job_func returned: the job object is rescheduled.
Reschedule(reg, j, t) ==
    [i \in 1..Len(reg) |->
        IF SameJob(reg[i], j)
        THEN [reg[i] EXCEPT !.next_run = NextRun(t, j.wd, j.at)]
        ELSE reg[i]]

\* -------------------------------------------------------------- handlers
CollectionFuncs == {"collect_daily_data", "collect_hourly_updates"}

InMarketHoursInclusive(h) == MarketOpenHour <= h /\ h <= MarketCloseHour

\* collect_hourly_updates: "if 8 <= current_hour < 18"
InMarketHours(h) == MarketOpenHour <= h /\ h < MarketCloseHour

\* How a handler's body can end: records saved, nothing saved, or an
\* exception caught by the handler's own try/except.
Outcomes(func) ==
    IF func \in {"collect_daily_data", "collect_hourly_updates"}
    THEN {"saved", "none", "exc"}
    ELSE IF func \in {"create_daily_backup", "cleanup_old_data",
                      "generate_daily_report"}
         THEN {"saved", "exc"}
    ELSE {"saved"}

\* The work a handler's body does when entered at hour h.
HandlerWork(func, h) ==
    CASE func = "collect_daily_data"      ->
            <<"fetch", "save", "collection_log", "notify">>
      [] func = "collect_hourly_updates"  ->
            IF InMarketHours(h) THEN <<"fetch", "save", "collection_log">>
            ELSE <<>>
      [] func = "update_market_status"    -> <<"markets">>
      [] func = "send_daily_summaries"    -> <<"sms">>
      [] func = "create_daily_backup"     -> <<"zip", "activity_log">>
      [] func = "cleanup_old_data"        -> <<"purge", "activity_log">>
      [] func = "generate_daily_report"   -> <<"report", "activity_log">>
      [] func = "generate_monthly_report" -> <<"report">>
      [] OTHER                            -> <<>>

\* Records the handler appends to collection_logs: records_collected is 1
\* for a positive saved_count; interrupted tells whether the record was
\* written by the handler's except branch.
CollectionLogOf(func, h, outcome) ==
    CASE func = "collect_daily_data" ->
            << [operation |-> "daily_collection",
                records_collected |-> IF outcome = "saved" THEN 1 ELSE 0,
                status |-> IF outcome = "exc" THEN "failed"
                           ELSE IF outcome = "saved" THEN "success"
                           ELSE "partial",
                interrupted |-> outcome = "exc"] >>
      [] func = "collect_hourly_updates" ->
            IF InMarketHours(h) /\ outcome # "exc"
            THEN << [operation |-> "hourly_update",
                     records_collected |-> IF outcome = "saved" THEN 1 ELSE 0,
                     status |-> "success",
                     interrupted |-> FALSE] >>
            ELSE <<>>
      [] OTHER -> <<>>

\* Records the handler appends to activity_logs.
ActivityLogOf(func, outcome) ==
    IF outcome = "exc" THEN <<>>
    ELSE CASE func = "create_daily_backup"   -> <<"daily_backup">>
           [] func = "cleanup_old_data"      -> <<"data_cleanup">>
           [] func = "generate_daily_report" -> <<"daily_report">>
           [] OTHER -> <<>>

\* run_once_now's dispatch on the job name.
ManualNames ==
    {"daily", "hourly", "backup", "market_status", "cleanup", "report",
     "summaries"}

ManualFunc(name) ==
    CASE name = "daily"         -> "collect_daily_data"
      [] name = "hourly"        -> "collect_hourly_updates"
      [] name = "backup"        -> "create_daily_backup"
      [] name = "market_status" -> "update_market_status"
      [] name = "cleanup"       -> "cleanup_old_data"
      [] name = "report"        -> "generate_daily_report"
      [] name = "summaries"     -> "send_daily_summaries"
      [] OTHER                  -> "unknown"

\* ---------------------------------------------------------------- threads
Loops == 1..MaxStarts

NoJob == [gen |-> 0, owner |-> "none", func |-> "none", at |-> 0, wd |-> 0,
          next_run |-> 0]

\* pc: idle (not created), sleep (before the loop condition), tick (inside
\* run_pending), handler (inside a job function), dead (loop left).
\* epoch: value of starts when the thread last passed the loop condition.
\* stopPending: stop_scheduler was called during the thread's life.
\* resumed: the thread passed the loop condition after that stop.
\* raised: a handler of the current tick ended in its except branch.
IdleThread ==
    [pc |-> "idle", todo |-> <<>>, cur |-> NoJob, h |-> 0,
     epoch |-> 0, stopPending |-> FALSE, resumed |-> FALSE,
     raised |-> FALSE]

IdleManual == [pc |-> "idle", name |-> "none", func |-> "none", h |-> 0]

Alive(t) == thr[t].pc \notin {"idle", "dead"}

SInit ==
    /\ running = FALSE
    /\ registry = <<>>
    /\ starts = 0
    /\ stops = 0
    /\ now \in StartInstants
    /\ ticks = 0
    /\ thr = [t \in Loops |-> IdleThread]
    /\ man = IdleManual
    /\ manuals = 0
    /\ lastManual = [name |-> "none", h |-> 0, work |-> <<>>]
    /\ collection_logs = <<>>
    /\ activity_logs = <<>>
    /\ appTasks = FALSE

\* start_scheduler without its first test, "if self.running: return".
StartSchedulerUnguarded ==
    /\ starts < MaxStarts
    /\ registry' = MakeJobs(DsJobSpecs, "ds", starts + 1, now)
    /\ running' = TRUE
    /\ starts' = starts + 1
    /\ thr' = [thr EXCEPT ![starts + 1] = [IdleThread EXCEPT !.pc = "sleep"]]
    /\ activity_logs' = Append(activity_logs, "scheduler_start")
    /\ UNCHANGED <<appTasks, stops, now, ticks, man, manuals, lastManual,
                   collection_logs>>

\* DataScheduler.start_scheduler
StartScheduler ==
    IF running
    THEN UNCHANGED svars
    ELSE /\ starts < MaxStarts
         /\ registry' = MakeJobs(DsJobSpecs, "ds", starts + 1, now)
         /\ running' = TRUE
         /\ starts' = starts + 1
         /\ thr' = [thr EXCEPT ![starts + 1] =
                       [IdleThread EXCEPT !.pc = "sleep"]]
         /\ activity_logs' = Append(activity_logs, "scheduler_start")
         /\ UNCHANGED <<appTasks, stops, now, ticks, man, manuals, lastManual,
                        collection_logs>>

\* DataScheduler.stop_scheduler
StopScheduler ==
    /\ stops < MaxStops
    /\ running' = FALSE
    /\ registry' = <<>>
    /\ stops' = stops + 1
    /\ thr' = [t \in Loops |->
                 IF Alive(t)
                 THEN [thr[t] EXCEPT !.stopPending = TRUE, !.resumed = FALSE]
                 ELSE thr[t]]
    /\ activity_logs' = Append(activity_logs, "scheduler_stop")
    /\ UNCHANGED <<appTasks, starts, now, ticks, man, manuals, lastManual,
                   collection_logs>>

\* The loop condition: "while self.running".
LoopContinues == running

\* _run_scheduler_loop: the thread starts or wakes from time.sleep(60),
\* tests the loop condition and enters schedule.run_pending.
LoopWake(t) ==
    /\ thr[t].pc = "sleep"
    /\ thr' = [thr EXCEPT ![t] =
                 IF LoopContinues
                 THEN [@ EXCEPT !.pc = "tick",
                                !.todo = DueJobs(registry, now),
                                !.epoch = starts,
                                !.resumed = thr[t].stopPending,
                                !.raised = FALSE]
                 ELSE [@ EXCEPT !.pc = "dead"]]
    /\ UNCHANGED <<appTasks, running, registry, starts, stops, now, ticks, man,
                   manuals, lastManual, collection_logs, activity_logs>>

\* schedule.Job.run: job_func is called.
HandlerBegin(t) ==
    /\ thr[t].pc = "tick"
    /\ thr[t].todo # <<>>
    /\ thr' = [thr EXCEPT ![t] =
                 [@ EXCEPT !.pc = "handler", !.cur = Head(thr[t].todo),
                           !.todo = Tail(@), !.h = Hour(now)]]
    /\ UNCHANGED <<appTasks, running, registry, starts, stops, now, ticks, man,
                   manuals, lastManual, collection_logs, activity_logs>>

\* job_func ends, had the handlers no try/except of their own: the
\* exception leaves run_pending, the job is not rescheduled and the other
\* jobs due in the tick are not run; the loop's except catches it.
HandlerEndPropagating(t) ==
    /\ thr[t].pc = "handler"
    /\ \E outcome \in Outcomes(thr[t].cur.func) :
          /\ collection_logs' = collection_logs \o
                 CollectionLogOf(thr[t].cur.func, thr[t].h, outcome)
          /\ activity_logs' = activity_logs \o
                 ActivityLogOf(thr[t].cur.func, outcome)
          /\ registry' = IF outcome = "exc" THEN registry
                         ELSE Reschedule(registry, thr[t].cur, now)
          /\ thr' = [thr EXCEPT ![t] =
                       [@ EXCEPT !.pc = "tick", !.cur = NoJob,
                                 !.todo = IF outcome = "exc" THEN <<>> ELSE @,
                                 !.raised = @ \/ outcome = "exc"]]
    /\ UNCHANGED <<appTasks, running, starts, stops, now, ticks, man, manuals,
                   lastManual>>

\* job_func returns, an exception raised in its body having been caught by
\* its own try/except; the job is rescheduled.
HandlerEnd(t) ==
    /\ thr[t].pc = "handler"
    /\ \E outcome \in Outcomes(thr[t].cur.func) :
          /\ collection_logs' = collection_logs \o
                 CollectionLogOf(thr[t].cur.func, thr[t].h, outcome)
          /\ activity_logs' = activity_logs \o
                 ActivityLogOf(thr[t].cur.func, outcome)
          /\ thr' = [thr EXCEPT ![t] =
                       [@ EXCEPT !.pc = "tick", !.cur = NoJob,
                                 !.raised = @ \/ outcome = "exc"]]
    /\ registry' = Reschedule(registry, thr[t].cur, now)
    /\ UNCHANGED <<appTasks, running, starts, stops, now, ticks, man, manuals,
                   lastManual>>

\* run_pending returned; time.sleep(60).
TickDone(t) ==
    /\ thr[t].pc = "tick"
    /\ thr[t].todo = <<>>
    /\ thr' = [thr EXCEPT ![t] = [@ EXCEPT !.pc = "sleep"]]
    /\ UNCHANGED <<appTasks, running, registry, starts, stops, now, ticks, man,
                   manuals, lastManual, collection_logs, activity_logs>>

\* DataScheduler.run_once_now(name), called from the main thread.
RunOnceNow(name) ==
    /\ man.pc = "idle"
    /\ manuals < MaxManual
    /\ manuals' = manuals + 1
    /\ IF name \in ManualNames
       THEN /\ man' = [pc |-> "handler", name |-> name,
                       func |-> ManualFunc(name), h |-> Hour(now)]
            /\ UNCHANGED lastManual
       ELSE /\ man' = man
            /\ lastManual' = [name |-> name, h |-> Hour(now), work |-> <<>>]
    /\ UNCHANGED <<appTasks, running, registry, starts, stops, now, ticks, thr,
                   collection_logs, activity_logs>>

\* The handler called by run_once_now returns, had run_once_now gone
\* through schedule.Job.run: the registered jobs of that handler are
\* rescheduled.
ManualEndViaJobRun ==
    /\ man.pc = "handler"
    /\ \E outcome \in Outcomes(man.func) :
          /\ collection_logs' = collection_logs \o
                 CollectionLogOf(man.func, man.h, outcome)
          /\ activity_logs' = activity_logs \o ActivityLogOf(man.func, outcome)
    /\ lastManual' = [name |-> man.name, h |-> man.h,
                      work |-> HandlerWork(man.func, man.h)]
    /\ man' = IdleManual
    /\ registry' = [i \in 1..Len(registry) |->
                      IF registry[i].func = man.func
                      THEN [registry[i] EXCEPT !.next_run =
                               NextRun(now, registry[i].wd, registry[i].at)]
                      ELSE registry[i]]
    /\ UNCHANGED <<appTasks, running, starts, stops, now, ticks, thr, manuals>>

\* The handler called by run_once_now returns.
ManualEnd ==
    /\ man.pc = "handler"
    /\ \E outcome \in Outcomes(man.func) :
          /\ collection_logs' = collection_logs \o
                 CollectionLogOf(man.func, man.h, outcome)
          /\ activity_logs' = activity_logs \o ActivityLogOf(man.func, outcome)
    /\ lastManual' = [name |-> man.name, h |-> man.h,
                      work |-> HandlerWork(man.func, man.h)]
    /\ man' = IdleManual
    /\ UNCHANGED <<appTasks, running, registry, starts, stops, now, ticks, thr,
                   manuals>>

\* Time passes.
AdvanceClock ==
    /\ ticks < MaxTicks
    /\ ticks' = ticks + 1
    /\ now' = now + ClockStep
    /\ UNCHANGED <<appTasks, running, registry, starts, stops, thr, man, manuals,
                   lastManual, collection_logs, activity_logs>>

\* app.schedule_tasks, called once by the application's main program as
\* it starts up, before or after start_scheduler: its jobs are appended to
\* the registry.  The loop thread it starts, which also calls
\* schedule.run_pending, is left out.
ScheduleTasks ==
    /\ ~appTasks
    /\ ticks = 0
    /\ manuals = 0
    /\ appTasks' = TRUE
    /\ registry' = registry \o MakeJobs(AppJobSpecs, "app", 0, now)
    /\ UNCHANGED <<running, starts, stops, now, ticks, thr, man, manuals,
                   lastManual, collection_logs, activity_logs>>

SNext ==
    \/ StartScheduler
    \/ StopScheduler
    \/ \E t \in Loops : LoopWake(t)
    \/ \E t \in Loops : HandlerBegin(t)
    \/ \E t \in Loops : HandlerEnd(t)
    \/ \E t \in Loops : TickDone(t)
    \/ \E name \in ManualNames \cup {"status"} : RunOnceNow(name)
    \/ ManualEnd
    \/ AdvanceClock

\* The application (src/app.py): the scheduler's steps and schedule_tasks.
ANext ==
    \/ SNext
    \/ ScheduleTasks

\* ============================================================ price store
Writers == 1..2

Day(ts) == ts \div TicksPerDay

NoQuality == "none"      \* the record has no 'quality' key / the column is NULL

ZnfuMarket == "Lusaka Central Market"
MacoMarket == "Kitwe Main Market"

Qualities == {"Standard"}

\* ZambianMarketData.fetch_znfu_prices: records stamped datetime.now(),
\* with a quality grade; [] when the adapter fails.
ZnfuResults(ts) ==
    {<<>>} \cup
    { << [market |-> ZnfuMarket, commodity |-> "Maize", price |-> p,
          source |-> "ZNFU", recorded_at |-> ts, quality |-> q] >> :
        p \in 1..MaxPrice, q \in Qualities }

\* ZambianMarketData.fetch_maco_prices: records without a quality grade.
MacoResults(ts) ==
    {<<>>} \cup
    { << [market |-> MacoMarket, commodity |-> "Maize", price |-> p,
          source |-> "MACO_Copperbelt", recorded_at |-> ts,
          quality |-> NoQuality] >> :
        p \in 1..MaxPrice }

\* ZambianMarketData.fetch_all_sources
FetchAllSources(ts) ==
    { z \o m : z \in ZnfuResults(ts), m \in MacoResults(ts) }

KeyOf(x) == <<x.market, x.commodity, Day(x.recorded_at)>>

\* UNIQUE(market, commodity, recorded_at): a row other than exceptId
\* already holds the observation's triple.
UniqueConflict(tbl, o, exceptId) ==
    \E r \in tbl : /\ r.id # exceptId
                   /\ r.market = o.market
                   /\ r.commodity = o.commodity
                   /\ r.recorded_at = o.recorded_at

\* SELECT id FROM market_prices
\*  WHERE market = ? AND commodity = ? AND date(recorded_at) = today
LookupToday(tbl, o, today) ==
    { r.id : r \in { x \in tbl : /\ x.market = o.market
                                 /\ x.commodity = o.commodity
                                 /\ Day(x.recorded_at) = today } }

\* UPDATE market_prices SET price, unit, source, verified, recorded_at
\*  [, quality] WHERE id = ?
UpdateRow(tbl, id, o) ==
    { IF r.id = id
      THEN [r EXCEPT !.price = o.price, !.source = o.source,
                     !.recorded_at = o.recorded_at,
                     !.quality = IF o.quality # NoQuality THEN o.quality
                                 ELSE @]
      ELSE r : r \in tbl }

\* INSERT INTO market_prices (...) VALUES (...)
InsertRow(tbl, id, o, q) ==
    tbl \cup { [id |-> id, market |-> o.market, commodity |-> o.commodity,
                price |-> o.price, source |-> o.source,
                recorded_at |-> o.recorded_at, quality |-> q] }

\* INSERT OR REPLACE INTO market_prices (...): the rows in conflict on the
\* UNIQUE constraint are deleted first.
ReplaceRow(tbl, id, o) ==
    InsertRow({ r \in tbl : ~ /\ r.market = o.market
                              /\ r.commodity = o.commodity
                              /\ r.recorded_at = o.recorded_at },
              id, o, o.quality)

\* saved is saved_count; done tells, for each record the loop is through
\* with, whether its write succeeded.
IdleWriter ==
    [pc |-> "idle", kind |-> "none", batch |-> <<>>, i |-> 0, found |-> 0,
     saved |-> 0, done |-> <<>>]

InSave(t) == w[t].pc \notin {"idle", "fetched"}

CurObs(t) == w[t].batch[w[t].i]

\* What the writer's connection reads: its own open transaction, or the
\* committed table.
TableOf(t) == IF wlock = t THEN work.rows ELSE rows

NextIdOf(t) == IF wlock = t THEN work.nextId ELSE nextId

LockFree(t) == wlock \in {0, t}

\* The writer moves to the next record of its batch, or to conn.commit().
AfterRecord(t, counted) ==
    [w[t] EXCEPT !.saved = IF counted THEN @ + 1 ELSE @,
                 !.done = Append(@, counted),
                 !.found = 0,
                 !.i = IF w[t].i < Len(w[t].batch) THEN @ + 1 ELSE @,
                 !.pc = IF w[t].i < Len(w[t].batch)
                        THEN (IF w[t].kind = "safe" THEN "lookup" ELSE "apiwrite")
                        ELSE "commit"]

DInit ==
    /\ rows = {}
    /\ nextId = 1
    /\ wlock = 0
    /\ work = [rows |-> {}, nextId |-> 1]
    /\ dbNow = 0
    /\ w = [t \in Writers |-> IdleWriter]
    /\ batches = 0
    /\ writes = <<>>

\* prices = fetch_all_sources(): collect_daily_data / collect_hourly_updates
\* (kind "safe") or collect_zambian_data (kind "api").
Fetch(t, kind) ==
    /\ w[t].pc = "idle"
    /\ batches < MaxBatches
    /\ batches' = batches + 1
    /\ \E b \in FetchAllSources(dbNow) :
          w' = [w EXCEPT ![t] = [@ EXCEPT !.pc = "fetched", !.kind = kind,
                                         !.batch = b]]
    /\ UNCHANGED <<rows, nextId, wlock, work, dbNow, writes>>

\* Entry of _save_prices_to_database_safe ("if not prices: return 0") or of
\* the save loop of collect_zambian_data.
EnterSave(t) ==
    /\ w[t].pc = "fetched"
    /\ w' = [w EXCEPT ![t] =
               [@ EXCEPT !.saved = 0, !.done = <<>>, !.found = 0,
                         !.i = IF w[t].batch = <<>> THEN 0 ELSE 1,
                         !.pc = IF w[t].kind = "safe"
                                THEN (IF w[t].batch = <<>> THEN "idle" ELSE "lookup")
                                ELSE (IF w[t].batch = <<>> THEN "commit" ELSE "apiwrite")]]
    /\ UNCHANGED <<rows, nextId, wlock, work, dbNow, batches, writes>>

BeginSave(t) == EnterSave(t)

\* The same, when the callers serialize their collections.
BeginSaveSerial(t) ==
    /\ \A u \in Writers \ {t} : ~InSave(u)
    /\ EnterSave(t)

\* "Check if record exists for today": SELECT ... ; cur.fetchone()
Lookup(t) ==
    /\ w[t].pc = "lookup"
    /\ LET ids == LookupToday(TableOf(t), CurObs(t), Day(dbNow))
       IN  \E f \in (IF ids = {} THEN {0} ELSE ids) :
              w' = [w EXCEPT ![t] = [@ EXCEPT !.found = f, !.pc = "write"]]
    /\ UNCHANGED <<rows, nextId, wlock, work, dbNow, batches, writes>>

\* The UPDATE or INSERT of the record; a constraint violation raises and
\* leads to the fallback insert.
SafeWrite(t) ==
    /\ w[t].pc = "write"
    /\ LockFree(t)
    /\ wlock' = t
    /\ LET o   == CurObs(t)
           tbl == TableOf(t)
           nid == NextIdOf(t)
           bad == UniqueConflict(tbl, o, w[t].found)
       IN  IF bad
           THEN /\ work' = [rows |-> tbl, nextId |-> nid]
                /\ w' = [w EXCEPT ![t] = [@ EXCEPT !.pc = "fallback"]]
                /\ UNCHANGED writes
           ELSE /\ work' = IF w[t].found # 0
                           THEN [rows |-> UpdateRow(tbl, w[t].found, o),
                                 nextId |-> nid]
                           ELSE [rows |-> InsertRow(tbl, nid, o, o.quality),
                                 nextId |-> nid + 1]
                /\ w' = [w EXCEPT ![t] = AfterRecord(t, TRUE)]
                /\ writes' = Append(writes, [via |-> "safe", o |-> o])
    /\ UNCHANGED <<rows, nextId, dbNow, batches>>

\* The write lock is held by the other connection for longer than the
\* connection's timeout: "database is locked" is raised.
WriteTimeout(t) ==
    /\ w[t].pc = "write"
    /\ ~LockFree(t)
    /\ w' = [w EXCEPT ![t] = [@ EXCEPT !.pc = "fallback"]]
    /\ UNCHANGED <<rows, nextId, wlock, work, dbNow, batches, writes>>

\* "Try simpler insert as fallback": basic columns only.
Fallback(t) ==
    /\ w[t].pc = "fallback"
    /\ LockFree(t)
    /\ wlock' = t
    /\ LET o   == CurObs(t)
           tbl == TableOf(t)
           nid == NextIdOf(t)
       IN  IF UniqueConflict(tbl, o, 0)
           THEN /\ work' = [rows |-> tbl, nextId |-> nid]
                /\ w' = [w EXCEPT ![t] = AfterRecord(t, FALSE)]
                /\ UNCHANGED writes
           ELSE /\ work' = [rows |-> InsertRow(tbl, nid, o, NoQuality),
                            nextId |-> nid + 1]
                /\ w' = [w EXCEPT ![t] = AfterRecord(t, TRUE)]
                /\ writes' = Append(writes, [via |-> "safe", o |-> o])
    /\ UNCHANGED <<rows, nextId, dbNow, batches>>

\* "Even simple insert failed", had the handler ended the loop ("break")
\* where the code has "continue".
FallbackTimeoutBreaking(t) ==
    /\ w[t].pc = "fallback"
    /\ ~LockFree(t)
    /\ w' = [w EXCEPT ![t] = [@ EXCEPT !.done = Append(@, FALSE),
                                       !.found = 0, !.pc = "commit"]]
    /\ UNCHANGED <<rows, nextId, wlock, work, dbNow, batches, writes>>

\* "Even simple insert failed": the record is skipped.
FallbackTimeout(t) ==
    /\ w[t].pc = "fallback"
    /\ ~LockFree(t)
    /\ w' = [w EXCEPT ![t] = AfterRecord(t, FALSE)]
    /\ UNCHANGED <<rows, nextId, wlock, work, dbNow, batches, writes>>

\* collect_zambian_data: INSERT OR REPLACE of the record.
ApiWrite(t) ==
    /\ w[t].pc = "apiwrite"
    /\ LockFree(t)
    /\ wlock' = t
    /\ work' = [rows |-> ReplaceRow(TableOf(t), NextIdOf(t), CurObs(t)),
                nextId |-> NextIdOf(t) + 1]
    /\ w' = [w EXCEPT ![t] = AfterRecord(t, TRUE)]
    /\ writes' = Append(writes, [via |-> "api", o |-> CurObs(t)])
    /\ UNCHANGED <<rows, nextId, dbNow, batches>>

\* collect_zambian_data: the insert raises "database is locked"; the
\* record is skipped.
ApiTimeout(t) ==
    /\ w[t].pc = "apiwrite"
    /\ ~LockFree(t)
    /\ w' = [w EXCEPT ![t] = AfterRecord(t, FALSE)]
    /\ UNCHANGED <<rows, nextId, wlock, work, dbNow, batches, writes>>

\* conn.commit(); conn.close()
Commit(t) ==
    /\ w[t].pc = "commit"
    /\ IF wlock = t
       THEN /\ rows' = work.rows
            /\ nextId' = work.nextId
            /\ wlock' = 0
       ELSE UNCHANGED <<rows, nextId, wlock>>
    /\ w' = [w EXCEPT ![t] = [@ EXCEPT !.pc = "idle", !.batch = <<>>,
                                       !.i = 0, !.found = 0]]
    /\ UNCHANGED <<work, dbNow, batches, writes>>

\* Time passes.
AdvanceDbClock ==
    /\ dbNow < MaxNow
    /\ dbNow' = dbNow + 1
    /\ UNCHANGED <<rows, nextId, wlock, work, w, batches, writes>>

Kinds == {"safe", "api"}

\* Collections running in concurrent threads.
DNext ==
    \/ \E t \in Writers, k \in Kinds : Fetch(t, k)
    \/ \E t \in Writers : BeginSave(t)
    \/ \E t \in Writers : Lookup(t)
    \/ \E t \in Writers : SafeWrite(t)
    \/ \E t \in Writers : WriteTimeout(t)
    \/ \E t \in Writers : Fallback(t)
    \/ \E t \in Writers : FallbackTimeout(t)
    \/ \E t \in Writers : ApiWrite(t)
    \/ \E t \in Writers : ApiTimeout(t)
    \/ \E t \in Writers : Commit(t)
    \/ AdvanceDbClock

\* Collections that save one after the other.
DNextSerial ==
    \/ \E t \in Writers, k \in Kinds : Fetch(t, k)
    \/ \E t \in Writers : BeginSaveSerial(t)
    \/ \E t \in Writers : Lookup(t)
    \/ \E t \in Writers : SafeWrite(t)
    \/ \E t \in Writers : Fallback(t)
    \/ \E t \in Writers : ApiWrite(t)
    \/ \E t \in Writers : Commit(t)
    \/ AdvanceDbClock

\* ======================================================== retention sweep
\* An instant: day number d, second of the day s, microsecond us.  The
\* process's local time is taken to be UTC.
Instants(days) == [d : days, s : 0..MaxTimeField, us : 0..MaxTimeField]

\* The instants of the collections of half a year ago, and the instants
\* at which the sweep may run.
PastInstants == Instants(0..MaxSweepDay)

SweepInstants ==
    Instants(PriceRetentionDays .. (PriceRetentionDays + MaxSweepDay))

\* Chronological order of instants.
Earlier(a, b) ==
    \/ a.d < b.d
    \/ a.d = b.d /\ a.s < b.s
    \/ a.d = b.d /\ a.s = b.s /\ a.us < b.us

\* datetime.now() - timedelta(days=n)
DaysBefore(t, n) == [t EXCEPT !.d = @ - n]

\* datetime.isoformat(timespec='seconds'): the fraction is always dropped.
IsoFormatSeconds(t) == <<t.d, CharT, t.s>>

\* datetime.isoformat(): "YYYY-MM-DDTHH:MM:SS.ffffff", the fraction left
\* out when the microsecond is 0.  A text is the sequence of its
\* fixed-width fields and separator characters.
IsoFormat(t) ==
    <<t.d, CharT, t.s>> \o (IF t.us = 0 THEN <<>> ELSE <<CharDot, t.us>>)

\* SQLite's CURRENT_TIMESTAMP: "YYYY-MM-DD HH:MM:SS".
SqliteTimestamp(t) == <<t.d, CharSpace, t.s>>

\* SQLite's "<" on two TEXT values: byte-wise, a proper prefix is smaller.
RECURSIVE TextLess(_, _)
TextLess(x, y) ==
    IF y = <<>> THEN FALSE
    ELSE IF x = <<>> THEN TRUE
    ELSE IF Head(x) # Head(y) THEN Head(x) < Head(y)
    ELSE TextLess(Tail(x), Tail(y))

\* DELETE FROM market_prices WHERE recorded_at < ?
PricesKept(tbl, cutoff) == { r \in tbl : ~TextLess(r.recorded_at, cutoff) }

\* DELETE FROM collection_logs WHERE collected_at < ?
LogsKept(tbl, cutoff) ==
    LET Keep(r) == ~TextLess(r.collected_at, cutoff)
    IN  SelectSeq(tbl, Keep)

\* The instants of a set in chronological order.
RECURSIVE InOrder(_)
InOrder(S) ==
    IF S = {} THEN <<>>
    ELSE LET first == CHOOSE x \in S : \A y \in S \ {x} : Earlier(x, y)
         IN  <<first>> \o InOrder(S \ {first})

\* The tables left by collections made at the instants of h (in order):
\* a day's later collection updated the row of the earlier one.
PriceRowsOf(h) ==
    { [id |-> CHOOSE j \in 1..Len(h) : h[j].d = h[i].d,
       at |-> h[i], recorded_at |-> IsoFormat(h[i])] :
        i \in { k \in 1..Len(h) :
                  \A j \in 1..Len(h) : h[j].d = h[k].d => j <= k } }

LogRowsOf(h) ==
    [i \in 1..Len(h) |->
        [id |-> i, at |-> h[i], collected_at |-> SqliteTimestamp(h[i])]]

NotSwept == [status |-> "none", deleted_prices |-> 0, deleted_logs |-> 0]

WInit ==
    /\ sweepNow = [d |-> 0, s |-> 0, us |-> 0]
    /\ price_rows = {}
    /\ log_rows = <<>>
    /\ collections = 0
    /\ sweeps = 0
    /\ swept = NotSwept

\* collect_daily_data as the sweep sees it: the day's price row is written
\* (updated when a row of today exists, inserted otherwise) unless nothing
\* was fetched, and a record is appended to collection_logs.
SweepCollect ==
    /\ collections < MaxSweepRows
    /\ collections' = collections + 1
    /\ \E fetched \in BOOLEAN :
          LET today == { r \in price_rows : r.at.d = sweepNow.d }
          IN  price_rows' =
                 IF ~fetched THEN price_rows
                 ELSE IF today # {}
                 THEN { IF r \in today
                        THEN [r EXCEPT !.at = sweepNow,
                                       !.recorded_at = IsoFormat(sweepNow)]
                        ELSE r : r \in price_rows }
                 ELSE price_rows \cup
                        { [id |-> collections + 1, at |-> sweepNow,
                           recorded_at |-> IsoFormat(sweepNow)] }
    /\ log_rows' = Append(log_rows,
                         [id |-> collections + 1, at |-> sweepNow,
                          collected_at |-> SqliteTimestamp(sweepNow)])
    /\ UNCHANGED <<sweepNow, sweeps, swept>>

\* cleanup_old_data, the try block runs to conn.commit().
CleanupOldData ==
    /\ sweeps < MaxSweeps
    /\ sweeps' = sweeps + 1
    /\ price_rows' = PricesKept(price_rows,
                         IsoFormat(DaysBefore(sweepNow, PriceRetentionDays)))
    /\ log_rows' = LogsKept(log_rows,
                         IsoFormat(DaysBefore(sweepNow, LogRetentionDays)))
    /\ swept' = [status |-> "done",
                 deleted_prices |->
                    Cardinality(price_rows) - Cardinality(price_rows'),
                 deleted_logs |-> Len(log_rows) - Len(log_rows')]
    /\ UNCHANGED <<sweepNow, collections>>

\* cleanup_old_data, an exception before conn.commit(): nothing is
\* committed and only a message is printed.
CleanupFails ==
    /\ sweeps < MaxSweeps
    /\ sweeps' = sweeps + 1
    /\ swept' = [NotSwept EXCEPT !.status = "failed"]
    /\ UNCHANGED <<sweepNow, price_rows, log_rows, collections>>

\* The sets of at most MaxSweepRows past instants.
Histories ==
    UNION { { { f[i] : i \in 1..k } : f \in [1..k -> PastInstants] } :
              k \in 0..MaxSweepRows }

\* The database holds what the collections of half a year ago left, and
\* the process runs at one of the instants of the sweep.
SweepInit ==
    /\ sweepNow \in SweepInstants
    /\ \E S \in Histories :
          /\ price_rows = PriceRowsOf(InOrder(S))
          /\ log_rows = LogRowsOf(InOrder(S))
          /\ collections = Cardinality(S)
    /\ sweeps = 0
    /\ swept = NotSwept

WNext ==
    \/ SweepCollect
    \/ CleanupOldData
    \/ CleanupFails

\* ====================================================== fetch_all_sources
\* sources = [("ZNFU", fetch_znfu_prices),
\*            ("Ministry of Agriculture", fetch_maco_prices)]
Sources == 1..2

\* What a call of adapter i can do: return its records, return [] (its own
\* except branch, or nothing to report), or raise.
AdapterBehaviours(i, ts) ==
    { [kind |-> "returns", recs |-> r] :
        r \in (IF i = 1 THEN ZnfuResults(ts) ELSE MacoResults(ts)) }
    \cup { [kind |-> "raises", recs |-> <<>>] }

IdleFetch ==
    [pc |-> "idle", i |-> 0, ts |-> 0, outs |-> <<>>, all_prices |-> <<>>,
     source_stats |-> <<>>, result |-> <<>>]

FInit == fetch = IdleFetch

\* fetch_all_sources is called: all_prices = [], source_stats = {}.
FetchCall ==
    /\ fetch.pc \in {"idle", "returned"}
    /\ \E ts \in 0..MaxNow :
       \E o \in [Sources -> UNION { AdapterBehaviours(i, ts) : i \in Sources }] :
          /\ \A i \in Sources : o[i] \in AdapterBehaviours(i, ts)
          /\ fetch' = [IdleFetch EXCEPT !.pc = "loop", !.i = 1, !.ts = ts,
                                        !.outs = o]

\* One iteration of "for source_name, fetch_function in sources", had the
\* loop no try/except: an adapter that raises ends the call.
FetchSourceUnguarded ==
    /\ fetch.pc = "loop"
    /\ LET o == fetch.outs[fetch.i]
       IN  fetch' =
              IF o.kind = "raises"
              THEN [fetch EXCEPT !.pc = "raised"]
              ELSE [fetch EXCEPT
                      !.all_prices = @ \o o.recs,
                      !.source_stats =
                         Append(@, IF o.recs # <<>> THEN "success" ELSE "empty"),
                      !.i = @ + 1,
                      !.pc = IF fetch.i = Cardinality(Sources)
                             THEN "stats" ELSE "loop"]

\* One iteration of "for source_name, fetch_function in sources".
FetchSource ==
    /\ fetch.pc = "loop"
    /\ LET o == fetch.outs[fetch.i]
       IN  fetch' =
              [fetch EXCEPT
                 !.all_prices = IF o.kind = "returns" THEN @ \o o.recs ELSE @,
                 !.source_stats =
                    Append(@, IF o.kind = "raises" THEN "error"
                              ELSE IF o.recs # <<>> THEN "success"
                              ELSE "empty"),
                 !.i = @ + 1,
                 !.pc = IF fetch.i = Cardinality(Sources)
                        THEN "stats" ELSE "loop"]

\* update_source_stats(source_stats), which catches its own errors, and
\* "return all_prices".
FetchReturn ==
    /\ fetch.pc = "stats"
    /\ fetch' = [fetch EXCEPT !.pc = "returned", !.result = fetch.all_prices]

FNext ==
    \/ FetchCall
    \/ FetchSource
    \/ FetchReturn

\* =============================================================== forecast
Commodities == {"Maize", "Tomatoes", "Beans"}

\* ForecastConfig.get_commodity_config(commodity)["model"]
ConfigModel(commodity) ==
    CASE commodity = "Tomatoes" -> "random_forest"
      [] commodity = "Beans"    -> "linear"
      [] OTHER                  -> "ensemble"

\* ForecastConfig.get_commodity_config(commodity)["default_price"], in
\* price units.
CatalogPrice(commodity) ==
    CASE commodity = "Maize"    -> 1205000
      [] commodity = "Tomatoes" -> 852500
      [] commodity = "Beans"    -> 1753000
      [] OTHER                  -> 1000000

Markets == {"Lusaka", "Livingstone"}

\* ForecastConfig.get_market_factor(market), in hundredths.
MarketFactor(market) ==
    CASE market = "Lusaka" -> 105
      [] OTHER             -> 100

ModelHints == {"auto", "ensemble", "random_forest", "linear"}

\* The history lengths on either side of each threshold of the code.
HistoryLengths ==
    {0, 1} \cup UNION { {k - 1, k} : k \in {SparseHistory, LinearHistory,
                                             EnsembleHistory, MediumHistory} }

\* A history (the DataFrame df): its length, the price of its first row
\* (df['price'].iloc[0]) and of its last row (df['price'].iloc[-1]), and
\* whether it has a 'price' column.
Histories2 ==
    { h \in [n : HistoryLengths, first : 0..MaxAnchor, last : 0..MaxAnchor,
             priced : BOOLEAN] :
        /\ h.n = 0 => (h.last = 0 /\ h.priced)
        /\ h.n <= 1 => h.first = h.last }

\* round(a / b) for b > 0, halves to the even neighbour.
RoundDiv(a, b) ==
    LET q == a \div b
        r == a - q * b
    IN  IF 2 * r < b THEN q
        ELSE IF 2 * r > b THEN q + 1
        ELSE IF q % 2 = 0 THEN q ELSE q + 1

\* "round((p - c) / c * 100, 2) if c > 0 else 0", in hundredths of a
\* percent.
ChangePercent(p, c) == IF c > 0 THEN RoundDiv((p - c) * 10000, c) ELSE 0

\* "up" if p > c else "down" if p < c else "stable"
TrendOf(p, c) == IF p > c THEN "up" ELSE IF p < c THEN "down" ELSE "stable"

\* The unrounded prices a strategy can predict against anchor c.  The
\* fallback multiplies a positive base price by positive factors.
Predictions(strategy, c, commodity) ==
    IF strategy = "fallback" /\ c <= 0 THEN {CatalogPrice(commodity)}
    ELSE {c - 1, c, c + 1} \cap Nat

\* enhanced_price_forecast without its first test, "if df.empty or
\* len(df) < 2": an empty history fails at df['price'].iloc[-1] and goes
\* to the except branch, a history of one point goes on to the selection.
EnhancedPlanUnscreened(h, commodity, hint) ==
    LET model_type == IF hint = "auto" THEN ConfigModel(commodity) ELSE hint
    IN  IF h.n = 0 \/ ~h.priced
        THEN [strategy |-> "fallback", meta |-> FALSE, model_type |-> hint,
              anchor |-> DefaultCurrentPrice * PriceScale]
        ELSE [strategy |->
                 IF model_type \in {"ensemble", "random_forest"}
                    /\ h.n >= EnsembleHistory THEN "ensemble"
                 ELSE IF model_type = "linear" /\ h.n >= LinearHistory
                 THEN "linear"
                 ELSE "fallback",
              meta |-> TRUE, model_type |-> model_type, anchor |-> h.last]

\* enhanced_price_forecast up to the call of a strategy: the strategy, the
\* anchor price, and whether the metadata loop will run on the result.
EnhancedPlan(h, commodity, hint) ==
    LET model_type == IF hint = "auto" THEN ConfigModel(commodity) ELSE hint
    IN  IF h.n < SparseHistory
        THEN [strategy |-> "fallback", meta |-> FALSE, model_type |-> hint,
              anchor |-> DefaultCurrentPrice * PriceScale]
        ELSE IF ~h.priced
        THEN [strategy |-> "fallback", meta |-> FALSE, model_type |-> hint,
              anchor |-> DefaultCurrentPrice * PriceScale]
        ELSE [strategy |->
                 IF model_type \in {"ensemble", "random_forest"}
                    /\ h.n >= EnsembleHistory THEN "ensemble"
                 ELSE IF model_type = "linear" /\ h.n >= LinearHistory
                 THEN "linear"
                 ELSE "fallback",
              meta |-> TRUE, model_type |-> model_type, anchor |-> h.last]

\* get_market_forecast up to the call of a strategy.
MarketPlan(h, commodity, market) ==
    IF h.n < SparseHistory
    THEN [strategy |-> "fallback", meta |-> FALSE, model_type |-> "auto",
          anchor |-> (CatalogPrice(commodity) * MarketFactor(market)) \div 100]
    ELSE EnhancedPlan(h, commodity, "auto")

IdleForecast ==
    [pc |-> "idle", entry |-> "none",
     h |-> [n |-> 0, first |-> 0, last |-> 0, priced |-> TRUE],
     days |-> 0, commodity |-> "none", market |-> "none", called |-> 0,
     plan |-> [strategy |-> "none", meta |-> FALSE, model_type |-> "none",
               anchor |-> 0],
     results |-> <<>>]

PInit ==
    /\ fcDate = 0
    /\ fc = IdleForecast

\* enhanced_price_forecast(df, days, commodity, market, model_type)
EnhancedCall ==
    /\ fc.pc = "idle"
    /\ \E h \in Histories2, days \in 0..MaxDays, commodity \in Commodities,
          market \in Markets, hint \in ModelHints :
          fc' = [IdleForecast EXCEPT
                   !.pc = "loop", !.entry = "enhanced_price_forecast",
                   !.h = h, !.days = days, !.commodity = commodity,
                   !.market = market, !.called = fcDate,
                   !.plan = EnhancedPlan(h, commodity, hint)]
    /\ UNCHANGED fcDate

\* get_market_forecast(commodity, market, days): the history comes from
\* load_commodity_data_from_db, which selects "ORDER BY recorded_at DESC":
\* it has a 'price' column, its first row is the most recent observation
\* and its last row the oldest one loaded.
MarketCall ==
    /\ fc.pc = "idle"
    /\ \E h \in Histories2, days \in 0..MaxDays, commodity \in Commodities,
          market \in Markets :
          /\ h.priced
          /\ fc' = [IdleForecast EXCEPT
                      !.pc = "loop", !.entry = "get_market_forecast",
                      !.h = h, !.days = days, !.commodity = commodity,
                      !.market = market, !.called = fcDate,
                      !.plan = MarketPlan(h, commodity, market)]
    /\ UNCHANGED fcDate

\* The day the point of iteration i is dated: datetime.now() is read in
\* every iteration of "for i in range(days)".
PointDate(i) == fcDate + i + 1

\* One iteration of the strategy's "for i in range(days)".
ForecastPoint ==
    /\ fc.pc = "loop"
    /\ Len(fc.results) < fc.days
    /\ \E p \in Predictions(fc.plan.strategy, fc.plan.anchor, fc.commodity) :
          fc' = [fc EXCEPT !.results = Append(@,
                   [date |-> PointDate(Len(fc.results)),
                    predicted_price |-> RoundDiv(p, PriceScale \div 100),
                    change_percent |-> ChangePercent(p, fc.plan.anchor),
                    trend |-> TrendOf(p, fc.plan.anchor),
                    model |-> IF fc.plan.strategy = "fallback"
                              THEN "fallback_with_context" ELSE "none",
                    confidence |-> IF fc.plan.strategy = "fallback"
                                   THEN "low" ELSE "none"])]
    /\ UNCHANGED fcDate

\* The strategy returns; enhanced_price_forecast's "Add metadata" loop;
\* the forecast is returned.
ForecastReturn ==
    /\ fc.pc = "loop"
    /\ Len(fc.results) = fc.days
    /\ fc' = [fc EXCEPT
                !.pc = "returned",
                !.results =
                   IF fc.plan.meta
                   THEN [k \in 1..Len(fc.results) |->
                           [fc.results[k] EXCEPT
                              !.model = fc.plan.model_type,
                              !.confidence =
                                 IF fc.h.n >= MediumHistory THEN "medium"
                                 ELSE "low"]]
                   ELSE @]
    /\ UNCHANGED fcDate

\* Midnight passes.
AdvanceForecastDate ==
    /\ fcDate < MaxDate
    /\ fcDate' = fcDate + 1
    /\ UNCHANGED fc

PNext ==
    \/ EnhancedCall
    \/ MarketCall
    \/ ForecastPoint
    \/ ForecastReturn
    \/ AdvanceForecastDate

\* ============================================ get_forecast_recommendations
\* Values of change_percent, in hundredths of a percent: each threshold of
\* the recommendation table, its negative, zero, and the values next to
\* them.
ChangeValues ==
    { s * (t * PercentScale + d) :
        s \in {-1, 1}, t \in {0, ModerateChange, StrongChange},
        d \in 0..MaxOffset }

Advice(buy_sell, confidence) ==
    [buy_sell |-> buy_sell, confidence |-> confidence]

\* The same table with inclusive thresholds.
RecommendInclusive(sum, n) ==
    IF n > 0
    THEN IF sum >= StrongChange * PercentScale * n
         THEN Advice("Hold/Buy", "high")
         ELSE IF sum >= ModerateChange * PercentScale * n
         THEN Advice("Consider Selling", "medium")
         ELSE IF sum <= - StrongChange * PercentScale * n
         THEN Advice("Sell", "high")
         ELSE IF sum <= - ModerateChange * PercentScale * n
         THEN Advice("Consider Selling", "medium")
         ELSE Advice("Hold", "medium")
    ELSE Advice("Hold", "medium")

\* The if/elif chain on avg_change = np.mean(changes): sum is the sum of the
\* n values of change_percent, and "avg_change > 8" is sum / n > 8.
Recommend(sum, n) ==
    IF n > 0
    THEN IF sum > StrongChange * PercentScale * n
         THEN Advice("Hold/Buy", "high")
         ELSE IF sum > ModerateChange * PercentScale * n
         THEN Advice("Consider Selling", "medium")
         ELSE IF sum < - StrongChange * PercentScale * n
         THEN Advice("Sell", "high")
         ELSE IF sum < - ModerateChange * PercentScale * n
         THEN Advice("Consider Selling", "medium")
         ELSE Advice("Hold", "medium")
    ELSE Advice("Hold", "medium")

\* forecast is what get_market_forecast handed back: "points" (a list of
\* points), "empty" (an empty list), "absent" (a value that is no list) or
\* "malformed" (a list whose elements are no dicts).
IdleRecommend ==
    [pc |-> "idle", forecast |-> "none", n |-> 0, sum |-> 0,
     result |-> Advice("none", "none")]

RInit == rec = IdleRecommend

\* get_forecast_recommendations(commodity, market) asks for a forecast
RecommendCall ==
    /\ rec.pc = "idle"
    /\ rec' = [IdleRecommend EXCEPT !.pc = "forecast"]

\* get_market_forecast(commodity, market, 7) appends one point; its
\* change_percent is whatever the strategy and its random variation give
RecommendPoint ==
    /\ rec.pc = "forecast"
    /\ rec.n < RecommendationDays
    /\ \E c \in ChangeValues :
          rec' = [rec EXCEPT !.forecast = "points", !.n = @ + 1,
                             !.sum = @ + c]

\* the forecast is complete: the mean is taken and mapped
RecommendReturn ==
    /\ rec.pc = "forecast"
    /\ rec.n = RecommendationDays
    /\ rec' = [rec EXCEPT !.pc = "returned",
                          !.result = Recommend(rec.sum, rec.n)]

\* the value handed back fails "isinstance(forecast, list) and
\* len(forecast) > 0": control falls through to the return after the if
RecommendNoForecast ==
    /\ rec.pc = "forecast"
    /\ rec.n = 0
    /\ \E kind \in {"empty", "absent"} :
          rec' = [rec EXCEPT !.pc = "returned", !.forecast = kind,
                             !.result = Recommend(0, 0)]

\* "day.get(...)" raises on an element that is no dict: the except branch
\* returns its own recommendation
RecommendMalformed ==
    /\ rec.pc = "forecast"
    /\ rec.n = 0
    /\ rec' = [rec EXCEPT !.pc = "returned", !.forecast = "malformed",
                          !.result = Advice("Monitor", "low")]

RNext ==
    \/ RecommendCall
    \/ RecommendPoint
    \/ RecommendReturn
    \/ RecommendNoForecast
    \/ RecommendMalformed

\* ======================================================= ensemble_forecast
\* ForecastConfig.get_seasonal_factor(month, commodity), in hundredths.
SeasonalFactor(month, commodity) ==
    IF commodity = "Maize"
    THEN IF month \in {4, 5, 6} THEN 92
         ELSE IF month \in {8, 9, 10} THEN 115
         ELSE 100
    ELSE IF commodity = "Tomatoes"
    THEN IF month \in {10, 11, 12, 1} THEN 120 ELSE 90
    ELSE 100

\* ForecastConfig.get_commodity_config(commodity)["volatility"], in
\* hundredths.
Volatility(commodity) ==
    CASE commodity = "Maize"    -> 8
      [] commodity = "Tomatoes" -> 25
      [] commodity = "Beans"    -> 10
      [] OTHER                  -> 10

\* random.uniform(-volatility / 2, volatility / 2), in thousandths: the two
\* ends of the interval and its middle.
Variations(commodity) ==
    { - 5 * Volatility(commodity), 0, 5 * Volatility(commodity) }

\* The day being averaged: sum and k are the sum and the number of the
\* day's candidate prices (avg_price = sum / k), and final_price is
\* num / (k * 10^7).
NoPoint == [month |-> 0, sum |-> 0, k |-> 0, num |-> 0]

IdleEnsemble ==
    [pc |-> "idle", commodity |-> "none", market |-> "none", days |-> 0,
     k |-> 0, i |-> 0, point |-> NoPoint]

EInit == ens = IdleEnsemble

\* ensemble_forecast(df, current_price, days, commodity, market): the
\* seasonal and the market-aware series are always there, the linear trend
\* series only when linear_trend_forecast did not return None.
EnsembleCall ==
    /\ ens.pc = "idle"
    /\ \E commodity \in Commodities, market \in Markets, days \in 0..MaxDays,
          k \in 2..3 :
          ens' = [IdleEnsemble EXCEPT !.pc = "days", !.commodity = commodity,
                                      !.market = market, !.days = days,
                                      !.k = k]

\* One iteration of "for i in range(days)": the candidates of day i are
\* averaged, the factors of the day's month and of the market are applied
\* and the random variation is added.
EnsembleDay ==
    /\ ens.pc = "days"
    /\ ens.i < ens.days
    /\ \E c \in [1..ens.k -> 1..MaxCandidate], month \in 1..12,
          v \in Variations(ens.commodity) :
          LET sum == IF ens.k = 2 THEN c[1] + c[2] ELSE c[1] + c[2] + c[3]
          IN  ens' = [ens EXCEPT
                        !.i = @ + 1,
                        !.point =
                           [month |-> month, sum |-> sum, k |-> ens.k,
                            num |-> sum * SeasonalFactor(month, ens.commodity)
                                        * MarketFactor(ens.market)
                                        * (1000 + v)]]

EnsembleReturn ==
    /\ ens.pc = "days"
    /\ ens.i = ens.days
    /\ ens' = [ens EXCEPT !.pc = "returned"]

ENext ==
    \/ EnsembleCall
    \/ EnsembleDay
    \/ EnsembleReturn

\* ========================================================= specifications
Init == SInit /\ DInit /\ WInit /\ FInit /\ PInit /\ RInit /\ EInit
Next == SNext /\ UNCHANGED <<dvars, wvars, fvars, pvars, rvars, evars>>
Spec == Init /\ [][Next]_vars

SpecApp ==
    Init /\ [][ANext /\ UNCHANGED <<dvars, wvars, fvars, pvars, rvars,
                                     evars>>]_vars

DbInit == SInit /\ now = At(7, 30) /\ DInit /\ WInit /\ FInit /\ PInit /\ RInit /\ EInit
SpecDb == DbInit /\ [][DNext /\ UNCHANGED <<svars, wvars, fvars, pvars, rvars, evars>>]_vars
SpecDbSerial ==
    DbInit /\ [][DNextSerial /\ UNCHANGED <<svars, wvars, fvars, pvars, rvars, evars>>]_vars

SpecFetch ==
    DbInit /\ [][FNext /\ UNCHANGED <<svars, dvars, wvars, pvars, rvars, evars>>]_vars

SpecForecast ==
    DbInit /\ [][PNext /\ UNCHANGED <<svars, dvars, wvars, fvars, rvars, evars>>]_vars

SpecRecommend ==
    DbInit /\ [][RNext /\ UNCHANGED <<svars, dvars, wvars, fvars, pvars,
                                       evars>>]_vars

SpecEnsemble ==
    DbInit /\ [][ENext /\ UNCHANGED <<svars, dvars, wvars, fvars, pvars,
                                       rvars>>]_vars

SweepStart ==
    SInit /\ now = At(7, 30) /\ DInit /\ SweepInit /\ FInit /\ PInit /\ RInit /\ EInit
SpecSweep ==
    SweepStart /\ [][WNext /\ UNCHANGED <<svars, dvars, fvars, pvars, rvars, evars>>]_vars

\* ======================================================== scheduler claims

\* C1: no two job-handler invocations started by background scheduling
\* run at the same time.
C1_NoTwoHandlersAtOnce ==
    Cardinality({t \in Loops : thr[t].pc = "handler"}) <= 1

\* C4: a collection started by run_once_now never runs at the same time as
\* a collection handler executed by the background loop.
C4_OneCollectionInFlight ==
    ~ /\ man.pc = "handler"
      /\ man.func \in CollectionFuncs
      /\ HandlerWork(man.func, man.h) # <<>>
      /\ \E t \in Loops :
            /\ thr[t].pc = "handler"
            /\ thr[t].cur.func \in CollectionFuncs
            /\ HandlerWork(thr[t].cur.func, thr[t].h) # <<>>

\* C7: at most one background loop is alive and executing ticks: at most
\* one live loop thread has passed the loop condition since the latest
\* start_scheduler.
C7_AtMostOneLoop ==
    Cardinality({t \in Loops : Alive(t) /\ starts > 0
                                /\ thr[t].epoch = starts}) <= 1

\* C8: a loop that was running when stop_scheduler was called observes the
\* stop at its next wake-up: it never passes the loop condition again.
C8_StopObserved ==
    \A t \in Loops : thr[t].stopPending => ~thr[t].resumed

\* C9: stop_scheduler while already stopped leaves the running flag, the
\* registered job set and the activity log as they were.
C9_StopWhenStoppedIsNoOp ==
    [][(StopScheduler /\ ~running) =>
          /\ running' = running
          /\ registry' = registry
          /\ activity_logs' = activity_logs]_vars

\* C10 as stated: every job name accepted by run_once_now performs its
\* work whatever the wall-clock time.
C10_ManualAlwaysWorks ==
    lastManual.name \in ManualNames => lastManual.work # <<>>

\* C10 as amended: every accepted job name other than "hourly" performs its
\* work whatever the wall-clock time; "hourly" performs its work exactly
\* when the hour h of the call satisfies 8 <= h < 18.
C10_ManualWorkByHour ==
    /\ lastManual.name \in ManualNames \ {"hourly"} => lastManual.work # <<>>
    /\ lastManual.name = "hourly" =>
          (lastManual.work # <<>> <=> (8 <= lastManual.h /\ lastManual.h < 18))

C10_Witness ==
    /\ lastManual.name = "hourly"
    /\ lastManual.h >= 18
    /\ lastManual.work = <<>>

\* C11: run_once_now leaves the registered job set, every job's next
\* scheduled run and the running flag unchanged, whether the scheduler is
\* running or stopped and whether or not the job name is known.
C11_ManualFrame ==
    [][(manuals' # manuals \/ man' # man) =>
          /\ registry' = registry
          /\ running' = running]_vars

\* A manual daily collection has completed after the job's scheduled time
\* while the scheduler is running and the job has not yet been run by the
\* loop.
C11_Witness ==
    /\ lastManual.name = "daily"
    /\ running
    /\ \E i \in 1..Len(registry) :
          /\ registry[i].func = "collect_daily_data"
          /\ registry[i].next_run <= now

\* C14: a handler that raises while the loop executes the jobs due in a
\* tick does not end the tick or the loop: when a handler ends, however it
\* ends, the thread is still inside run_pending with the same jobs left to
\* invoke, and a thread that has finished a tick goes back to sleep.
C14_TickSurvivesHandler ==
    [][\A t \in Loops :
          /\ (thr[t].pc = "handler" /\ thr'[t].pc # "handler") =>
                 /\ thr'[t].pc = "tick"
                 /\ thr'[t].todo = thr[t].todo
          /\ (thr[t].pc = "tick" /\ thr'[t].pc # "tick") =>
                 \/ thr'[t].pc = "sleep" /\ thr[t].todo = <<>>
                 \/ thr'[t].pc = "handler" /\ thr'[t].cur = Head(thr[t].todo)]_vars

\* After collect_daily_data raised in a tick, the loop is inside the next
\* job due in that tick.
C14_Witness ==
    \E t \in Loops :
       /\ thr[t].raised
       /\ thr[t].pc = "handler"
       /\ thr[t].cur.func = "collect_hourly_updates"

\* A step in which a collection handler that was doing its work returns,
\* in a loop thread or in the thread of run_once_now.
CollectionReturns ==
    \/ \E t \in Loops :
          /\ thr[t].pc = "handler" /\ thr'[t].pc # "handler"
          /\ thr[t].cur.func \in CollectionFuncs
          /\ HandlerWork(thr[t].cur.func, thr[t].h) # <<>>
    \/ /\ man.pc = "handler" /\ man'.pc # "handler"
       /\ man.func \in CollectionFuncs
       /\ HandlerWork(man.func, man.h) # <<>>

\* C12: every invocation of a collection operation, whether it completes
\* normally or is interrupted by an exception, appends exactly one record
\* to the collection log.
C12_OneLogPerCollection ==
    [][CollectionReturns =>
          Len(collection_logs') = Len(collection_logs) + 1]_vars

\* C13: the collection log is append-only: every step leaves the records
\* already in the log in place and unchanged.
C13_LogAppendOnly ==
    [][\A i \in 1..Len(log_rows) :
          /\ i <= Len(log_rows')
          /\ log_rows'[i] = log_rows[i]]_vars

\* ====================================================== price store claims
Quiescent == wlock = 0 /\ \A t \in Writers : ~InSave(t)

RowsOfKey(k) == { r \in rows : KeyOf(r) = k }

WritesOfKey(k) ==
    LET Hit(x) == KeyOf(x.o) = k
    IN  SelectSeq(writes, Hit)

WrittenKeys == { KeyOf(writes[i].o) : i \in 1..Len(writes) }

AllSafe(ws) == \A i \in 1..Len(ws) : ws[i].via = "safe"

RowHolds(r, o) ==
    /\ r.market = o.market /\ r.commodity = o.commodity
    /\ r.price = o.price /\ r.source = o.source
    /\ r.recorded_at = o.recorded_at /\ r.quality = o.quality

\* C2: when o1 and then o2, of the same (market, commodity, day of
\* recorded_at), were written through _save_prices_to_database_safe, the
\* store holds exactly one row for that key and it carries o2's fields.
C2_LastWriteWins ==
    Quiescent =>
       \A k \in WrittenKeys :
          LET ws == WritesOfKey(k)
          IN  (Len(ws) >= 2 /\ AllSafe(ws)) =>
                 /\ Cardinality(RowsOfKey(k)) = 1
                 /\ \A r \in RowsOfKey(k) : RowHolds(r, ws[Len(ws)].o)

C5_AtomicUpsert ==
    (Quiescent /\ Day(dbNow) = 0) =>
       \A k \in WrittenKeys :
          LET ws == WritesOfKey(k)
          IN  (Len(ws) >= 2 /\ AllSafe(ws)) =>
                 /\ Cardinality(RowsOfKey(k)) = 1
                 /\ \A r \in RowsOfKey(k) :
                       \E i \in 1..Len(ws) : RowHolds(r, ws[i].o)

\* C6: an upsert of observation o changes no row stored for a key other
\* than o's key.
C6_OtherKeysUntouched ==
    [][\A t \in Writers :
          (w[t].pc \in {"write", "fallback"} /\ w'[t] # w[t]) =>
             \A r \in TableOf(t) :
                KeyOf(r) # KeyOf(CurObs(t)) => r \in work'.rows]_vars

\* ================================================= retention sweep claims

\* C16: a cleanup_old_data call that completes deletes every price
\* observation recorded earlier than the current time minus 180 days and
\* no observation recorded at or after that cutoff.
C16_SweepCutoff ==
    [][(sweeps' # sweeps /\ swept'.status = "done") =>
          price_rows' =
             { r \in price_rows : ~Earlier(r.at, DaysBefore(sweepNow, 180)) }]_vars

\* A sweep has deleted an observation and kept one recorded exactly at the
\* cutoff.
C16_Witness ==
    /\ swept.status = "done"
    /\ swept.deleted_prices > 0
    /\ \E r \in price_rows : r.at = DaysBefore(sweepNow, 180)

\* =============================================== fetch_all_sources claims
\* The records adapter behaviour o contributes to the result.
Contribution(o) == IF o.kind = "returns" THEN o.recs ELSE <<>>

C17_HorizonDates ==
    fc.pc = "returned" =>
       /\ Len(fc.results) = fc.days
       /\ \E D \in fc.called..fcDate :
             \A k \in 1..Len(fc.results) : fc.results[k].date = D + k

\* C18: for every history of fewer than 2 points, every commodity, market
\* and horizon, every point returned by enhanced_price_forecast has model
\* "fallback_with_context" and confidence "low", and no error is raised.
C18_SparseHistoryFallsBack ==
    /\ fc.pc # "raised"
    /\ (/\ fc.pc = "returned"
        /\ fc.entry = "enhanced_price_forecast"
        /\ fc.h.n < 2) =>
          /\ Len(fc.results) = fc.days
          /\ \A k \in 1..Len(fc.results) :
                /\ fc.results[k].model = "fallback_with_context"
                /\ fc.results[k].confidence = "low"

\* enhanced_price_forecast has returned a forecast of two points for a
\* history of one point.
C18_Witness ==
    /\ fc.pc = "returned"
    /\ fc.entry = "enhanced_price_forecast"
    /\ fc.h.n = 1
    /\ Len(fc.results) = 2
    /\ fc.results[2].model = "fallback_with_context"

\* C19: in every forecast point, trend is "up" exactly when the reported
\* change_percent is > 0, "down" exactly when it is < 0 and "stable"
\* exactly when it is 0, an anchor price of 0 included.
C19_TrendMatchesChange ==
    \A k \in 1..Len(fc.results) :
       LET r == fc.results[k]
       IN  /\ r.trend = "up" <=> r.change_percent > 0
           /\ r.trend = "down" <=> r.change_percent < 0
           /\ r.trend = "stable" <=> r.change_percent = 0

\* ===================================================== recommendation claim

\* C20: for a non-empty forecast whose change_percent values have the
\* arithmetic mean m, get_forecast_recommendations returns Hold/Buy with
\* high confidence when m > 8, Consider Selling with medium confidence when
\* 3 < m <= 8, Sell with high confidence when m < -8, Consider Selling with
\* medium confidence when -8 <= m < -3, and Hold with medium confidence
\* otherwise.  (m > 8 is written sum > 8 * n, in hundredths of a percent.)
C20_RecommendationTable ==
    (rec.pc = "returned" /\ rec.n > 0) =>
       LET sum == rec.sum
           hi  == 8 * PercentScale * rec.n
           lo  == 3 * PercentScale * rec.n
       IN  rec.result =
              IF sum > hi THEN Advice("Hold/Buy", "high")
              ELSE IF lo < sum /\ sum <= hi
                   THEN Advice("Consider Selling", "medium")
              ELSE IF sum < - hi THEN Advice("Sell", "high")
              ELSE IF - hi <= sum /\ sum < - lo
                   THEN Advice("Consider Selling", "medium")
              ELSE Advice("Hold", "medium")

\* a seven-point forecast whose mean change is exactly 8 percent was
\* answered with Consider Selling / medium
C20_Witness ==
    /\ rec.pc = "returned"
    /\ rec.n = RecommendationDays
    /\ rec.sum = 8 * PercentScale * rec.n
    /\ rec.result = Advice("Consider Selling", "medium")

C22_LoggedStatus ==
    \A k \in 1..Len(collection_logs) :
       LET r == collection_logs[k]
       IN  r.status = IF r.interrupted THEN "failed"
                      ELSE IF r.records_collected > 0 THEN "success"
                      ELSE "partial"

\* ======================================================== batch save claim

\* C23: _save_prices_to_database_safe goes through every record of its
\* batch whatever happens to the records before: when the loop is over
\* every record has been attempted, a record whose write succeeded is in
\* the writer's table while the call lasts whether or not another record
\* failed, and saved_count is the number of records whose write succeeded,
\* between 0 and the batch size, 0 for an empty batch.
C23_BatchContinues ==
    \A t \in Writers :
       w[t].kind = "safe" =>
          /\ w[t].saved = Cardinality({k \in DOMAIN w[t].done : w[t].done[k]})
          /\ InSave(t) =>
                /\ w[t].saved <= Len(w[t].batch)
                /\ Len(w[t].done) =
                      IF w[t].pc = "commit" THEN Len(w[t].batch)
                      ELSE w[t].i - 1
                /\ \A k \in DOMAIN w[t].done :
                      w[t].done[k] =>
                         \E r \in TableOf(t) :
                            /\ r.market = w[t].batch[k].market
                            /\ r.commodity = w[t].batch[k].commodity
                            /\ r.price = w[t].batch[k].price
                            /\ r.recorded_at = w[t].batch[k].recorded_at
          /\ (w[t].pc = "idle" /\ w[t].done = <<>>) => w[t].saved = 0

\* the loop of a two-record batch is over: the first record's write and
\* its fallback insert both failed, the second record was written
C23_Witness ==
    \E t \in Writers :
       /\ w[t].kind = "safe"
       /\ w[t].pc = "commit"
       /\ w[t].done = <<FALSE, TRUE>>
       /\ w[t].saved = 1

\* ========================================================= registry claims

C25_HourlyOnlyInMarketHours ==
    [][ LET hourly == "collect_hourly_updates"
            Inside(h) == 8 <= h /\ h < 18
            LoopEnds(t) == /\ thr[t].pc = "handler"
                           /\ thr[t].cur.func = hourly
                           /\ thr'[t].pc # "handler"
            ManualEnds == /\ man.pc = "handler"
                          /\ man.func = hourly
                          /\ man'.pc # "handler"
        IN  /\ \A t \in Loops :
                  LoopEnds(t) =>
                     IF Inside(thr[t].h)
                     THEN HandlerWork(hourly, thr[t].h)
                             = <<"fetch", "save", "collection_log">>
                     ELSE /\ HandlerWork(hourly, thr[t].h) = <<>>
                          /\ collection_logs' = collection_logs
                          /\ activity_logs' = activity_logs
            /\ ManualEnds =>
                  IF Inside(man.h)
                  THEN lastManual'.work = <<"fetch", "save", "collection_log">>
                  ELSE /\ lastManual'.work = <<>>
                       /\ collection_logs' = collection_logs
                       /\ activity_logs' = activity_logs
      ]_vars

\* the loop, late by half an hour, is inside the 17:30 hourly update after
\* 18:00 and nothing has been logged
C25_Witness ==
    \E t \in Loops :
       /\ thr[t].pc = "handler"
       /\ thr[t].cur.func = "collect_hourly_updates"
       /\ thr[t].h >= 18
       /\ HandlerWork(thr[t].cur.func, thr[t].h) = <<>>
       /\ collection_logs = <<>>

\* ================================================ forecast strategy claims

\* C26: the strategy that computes a forecast is a function of the history
\* length n and the model hint (the commodity's configured model when the
\* hint is "auto"): n < 2 gives the fallback with context; "ensemble" with
\* n >= 10 gives the ensemble; "linear" with 5 <= n < 10 gives the linear
\* regression; every other combination gives the fallback with context.
\* Stated for histories that have a price column.
C26_StrategySelection ==
    (fc.pc # "idle" /\ fc.h.priced) =>
       LET n    == fc.h.n
           hint == fc.plan.model_type
       IN  fc.plan.strategy =
              IF n < 2 THEN "fallback"
              ELSE IF hint = "ensemble" /\ n >= 10 THEN "ensemble"
              ELSE IF hint = "linear" /\ 5 <= n /\ n < 10 THEN "linear"
              ELSE "fallback"

\* C27: for a history loaded from the repository, which returns the rows
\* newest first, the anchor price of the forecast is the most recent
\* observation; when there is no history it is the commodity's catalog
\* typical price.
C27_AnchorIsMostRecent ==
    (fc.pc # "idle" /\ fc.entry = "get_market_forecast") =>
       fc.plan.anchor = IF fc.h.n = 0 THEN CatalogPrice(fc.commodity)
                        ELSE fc.h.first

\* C28: each ensemble prediction equals the mean of the day's candidate
\* prices multiplied by (1 + v) with |v| <= volatility / 2, so it differs
\* from that mean by at most volatility / 2 of it, for every commodity,
\* market and month.  With final_price = num / (k * 10^7) and the mean
\* sum / k, the k cancels: |num - sum * 10^7| <= sum * volatility/2 * 10^7.
C28_EnsembleNearMean ==
    ens.point # NoPoint =>
       LET mean == ens.point.sum * 10000000
           band == ens.point.sum * 5 * Volatility(ens.commodity) * 10000
       IN  /\ ens.point.num - mean <= band
           /\ mean - ens.point.num <= band

\* C29: the model field of every point returned by enhanced_price_forecast
\* names the strategy that computed the point, and confidence is "low" on
\* every point computed by the fallback with context.
C29_ModelNamesStrategy ==
    (fc.pc = "returned" /\ fc.entry = "enhanced_price_forecast") =>
       \A k \in 1..Len(fc.results) :
          /\ fc.results[k].model =
                CASE fc.plan.strategy = "fallback" -> "fallback_with_context"
                  [] fc.plan.strategy = "ensemble" -> "ensemble"
                  [] OTHER                         -> "linear"
          /\ fc.plan.strategy = "fallback" => fc.results[k].confidence = "low"

\* C30: start_scheduler and stop_scheduler add and remove only the jobs
\* DataScheduler registers: once app.schedule_tasks has registered its
\* jobs, each of them is in the registry after any sequence of starts and
\* stops.
C30_AppJobsStay ==
    appTasks =>
       \A i \in 1..Len(AppJobSpecs) :
          \E k \in 1..Len(registry) :
             /\ registry[k].owner = "app"
             /\ registry[k].func = AppJobSpecs[i].func
             /\ registry[k].at = AppJobSpecs[i].at


































====
